---- MODULE Spec2Model ----
(***************************************************************************)
(* A model of btctoy.crypto (src/src/btctoy/crypto/__init__.py): the prime *)
(* field, the Weierstrass points and their addition law, the double-and-   *)
(* add scalar product, ECDSA signing and verification, and the DER and SEC *)
(* encodings.                                                              *)
(*                                                                         *)
(* TLC's integers have 32 bits, so the 256-bit secp256k1 parameters are    *)
(* replaced by those of the curve of the same equation y^2 = x^3 + 7 over  *)
(* F_43: its group has prime order 31 < 43, 43 = 3 (mod 4), 7 is no square *)
(* (no point has x = 0) and some x coordinates are >= the group order, as  *)
(* for secp256k1.  The order 31 = 11111b is, like secp256k1's, a run of    *)
(* one bits longer than the significand of the floating-point type: the    *)
(* significand is scaled with it (FLOAT_MANT_DIG).  Byte strings are real  *)
(* byte strings and keep the width of 32 bytes.                            *)
(***************************************************************************)
EXTENDS Integers, Sequences, FiniteSets, TLC

VARIABLES
    \* EllipcCurvePoint.__add__ over an arbitrary prime field
    ap, aa, ab, aP, aQ, ares, apc,
    \* EllipcCurvePoint.__rmul__ and S256Point.__rmul__
    mk, mP, gen, s256,
    \* PrivateKey, PrivateKey.sign, S256Point.verify
    phase, origin, secret, z, sig, pub, s_inv, total, vres, verr,
    \* Signature.der, Signature.parse
    dpc, dsrc, dr, ds, dbin, dres,
    \* S256Point.sec, S256Point.parse
    spc, sP, scompressed, sbin, sres

addVars == <<ap, aa, ab, aP, aQ, ares, apc>>
mulVars == <<mk, mP, gen, s256>>
ecdsaVars == <<phase, origin, secret, z, sig, pub, s_inv, total, vres, verr>>
derVars == <<dpc, dsrc, dr, ds, dbin, dres>>
secVars == <<spc, sP, scompressed, sbin, sres>>
vars == <<addVars, mulVars, ecdsaVars, derVars, secVars>>

----------------------------------------------------------------------------
(* Parameters *)

EC_A == 0
EC_B == 7
EC_PRIME == 43
G_X == 2
G_Y == 12
G_ORDER == 31

\* Bits of the significand of the float that G_ORDER / 2 is computed in.
FLOAT_MANT_DIG == 3

\* Width of to_bytes(32, "big").
INT_BYTES == 32

\* Bounds of the model.
MaxPrime == 7
MaxK == 70
MaxIter == 9
MaxZ == 33
MaxR == 3
MaxS == 3
MaxRawLen == 6

----------------------------------------------------------------------------
(* ModularFieldInteger *)

\* The external collaborator is_prime.
IsPrime(q) == q >= 2 /\ \A d \in 2..(q - 1) : q % d # 0

\* Python's three-argument pow(base, exponent, modulus), exponent >= 0.
RECURSIVE PyPow(_, _, _)
PyPow(base, exponent, modulus) ==
    IF exponent = 0 THEN 1 % modulus
    ELSE IF exponent % 2 = 1
         THEN (base * PyPow(base, exponent - 1, modulus)) % modulus
         ELSE LET h == PyPow(base, exponent \div 2, modulus)
              IN  (h * h) % modulus

FAdd(v, w, p) == (v + w) % p
FSub(v, w, p) == (v - w) % p
FMul(v, w, p) == (v * w) % p
FPow(v, exponent, p) == PyPow(v, exponent % (p - 1), p)
FDiv(v, w, p) == (v * PyPow(w, p - 2, p)) % p
FRmul(coefficient, v, p) == (v * coefficient) % p

----------------------------------------------------------------------------
(* EllipcCurvePoint.  The point at infinity (x = y = None) is <<>>, a      *)
(* finite point is <<x, y>>.  An operation returns [kind, pt]: kind is     *)
(* "point", "ValueError" (the constructor rejected the coordinates) or     *)
(* "None" (the function fell off its end).                                 *)

INF == <<>>

IsOnEllipticCurve(x, y, a, b, p) ==
    FPow(y, 2, p) = FAdd(FAdd(FPow(x, 3, p), FMul(a, x, p), p), b, p)

EcInit(x, y, a, b, p) ==
    IF IsOnEllipticCurve(x, y, a, b, p)
    THEN [kind |-> "point", pt |-> <<x, y>>]
    ELSE [kind |-> "ValueError", pt |-> INF]

Returned(P) == [kind |-> "point", pt |-> P]

\* The points the constructor accepts on the curve (a, b) over F_p.
CurvePoints(a, b, p) ==
    {INF} \cup {pt \in (0..(p - 1)) \X (0..(p - 1)) :
                    IsOnEllipticCurve(pt[1], pt[2], a, b, p)}

EcAdd(P, Q, a, b, p) ==
    IF P = INF THEN Returned(Q)
    ELSE IF Q = INF THEN Returned(P)
    ELSE IF P[1] = Q[1] /\ P[2] # Q[2] THEN Returned(INF)
    ELSE IF P[1] # Q[1]
    THEN LET s == FDiv(FSub(Q[2], P[2], p), FSub(Q[1], P[1], p), p)
             x == FSub(FSub(FPow(s, 2, p), P[1], p), Q[1], p)
             y == FSub(FMul(s, FSub(P[1], x, p), p), P[2], p)
         IN  EcInit(x, y, a, b, p)
    ELSE IF P = Q /\ P[2] = FRmul(0, P[1], p) THEN Returned(INF)
    ELSE IF P = Q
    THEN LET s == FDiv(FAdd(FRmul(3, FPow(P[1], 2, p), p), a, p),
                       FRmul(2, P[2], p), p)
             x == FSub(FPow(s, 2, p), FRmul(2, P[1], p), p)
             y == FSub(FMul(s, FSub(P[1], x, p), p), P[2], p)
         IN  EcInit(x, y, a, b, p)
    ELSE [kind |-> "None", pt |-> INF]

\* One iteration of the loop of EllipcCurvePoint.__rmul__ on the locals
\* [coef, current, result]; kind records an exception of an addition.
RmulIter(st, a, b, p) ==
    LET sum == IF st.coef % 2 = 1
               THEN EcAdd(st.result, st.current, a, b, p)
               ELSE Returned(st.result)
        dbl == EcAdd(st.current, st.current, a, b, p)
    IN  [coef    |-> st.coef \div 2,
         current |-> dbl.pt,
         result  |-> sum.pt,
         kind    |-> IF sum.kind # "point" THEN sum.kind ELSE dbl.kind]

RmulEnter(coefficient, P) ==
    [coef |-> coefficient, current |-> P, result |-> INF, kind |-> "point"]

RECURSIVE RmulLoop(_, _, _, _)
RmulLoop(st, a, b, p) ==
    IF st.coef = 0 \/ st.kind # "point" THEN st
    ELSE RmulLoop(RmulIter(st, a, b, p), a, b, p)

----------------------------------------------------------------------------
(* S256Point *)

S256Points == CurvePoints(EC_A, EC_B, EC_PRIME)
G == <<G_X, G_Y>>

S256Add(P, Q) == EcAdd(P, Q, EC_A, EC_B, EC_PRIME).pt

S256ReduceWrong(coefficient) == coefficient % (G_ORDER - 1)
S256Reduce(coefficient) == coefficient % G_ORDER

\* coefficient * P for an S256Point P.
S256Rmul(coefficient, P) ==
    RmulLoop(RmulEnter(S256Reduce(coefficient), P), EC_A, EC_B, EC_PRIME).result

----------------------------------------------------------------------------
(* Idle values of the variables a specification does not use *)

AddIdle ==
    /\ ap = 0 /\ aa = 0 /\ ab = 0 /\ aP = INF /\ aQ = INF
    /\ ares = Returned(INF) /\ apc = "idle"
MulIdle ==
    /\ mk = 0 /\ mP = INF
    /\ gen = [pc |-> "idle", iters |-> 0, st |-> RmulEnter(0, INF)]
    /\ s256 = [pc |-> "idle", iters |-> 0, st |-> RmulEnter(0, INF)]
EcdsaIdle ==
    /\ phase = "idle" /\ origin = "none" /\ secret = 0 /\ z = 0
    /\ sig = <<0, 0>> /\ pub = INF /\ s_inv = 0 /\ total = INF
    /\ vres = "none" /\ verr = "none"
DerIdle ==
    /\ dpc = "idle" /\ dsrc = "none" /\ dr = 0 /\ ds = 0 /\ dbin = <<>>
    /\ dres = [kind |-> "none", r |-> 0, s |-> 0]
SecIdle ==
    /\ spc = "idle" /\ sP = INF /\ scompressed = FALSE /\ sbin = <<>>
    /\ sres = [kind |-> "none", pt |-> INF]

----------------------------------------------------------------------------
(* Addition of two points of one curve over one prime field *)

Primes == {q \in 2..MaxPrime : IsPrime(q)}

InitAdd ==
    /\ ap \in Primes
    /\ aa \in 0..(ap - 1)
    /\ ab \in 0..(ap - 1)
    /\ aP \in CurvePoints(aa, ab, ap)
    /\ aQ \in CurvePoints(aa, ab, ap)
    /\ ares = Returned(INF)
    /\ apc = "call"
    /\ MulIdle /\ EcdsaIdle /\ DerIdle /\ SecIdle

\* ares = aP + aQ
EcAddCall ==
    /\ apc = "call"
    /\ ares' = EcAdd(aP, aQ, aa, ab, ap)
    /\ apc' = "return"
    /\ UNCHANGED <<ap, aa, ab, aP, aQ, mulVars, ecdsaVars, derVars, secVars>>

\* The sum is added to a further point of the curve.
EcAddAgain ==
    /\ apc = "return"
    /\ ares.kind = "point"
    /\ \E Q \in CurvePoints(aa, ab, ap) :
          /\ aP' = ares.pt
          /\ aQ' = Q
    /\ apc' = "call"
    /\ UNCHANGED <<ap, aa, ab, ares, mulVars, ecdsaVars, derVars, secVars>>

NextAdd == EcAddCall \/ EcAddAgain
SpecAdd == InitAdd /\ [][NextAdd]_vars

----------------------------------------------------------------------------
(* Scalar product: coefficient * P by S256Point.__rmul__, then by the      *)
(* generic EllipcCurvePoint.__rmul__ on the same point                     *)

Abs(i) == IF i < 0 THEN 0 - i ELSE i

\* int.bit_length
RECURSIVE BitLength(_)
BitLength(i) == IF Abs(i) = 0 THEN 0 ELSE 1 + BitLength(Abs(i) \div 2)

InitMul ==
    /\ mk \in (0 - MaxK)..MaxK
    /\ mP \in S256Points
    /\ gen = [pc |-> "wait", iters |-> 0, st |-> RmulEnter(0, INF)]
    /\ s256 = [pc |-> "call", iters |-> 0, st |-> RmulEnter(0, INF)]
    /\ AddIdle /\ EcdsaIdle /\ DerIdle /\ SecIdle

\* while coef: one more iteration (the model stops counting at MaxIter)
LoopStep(m) ==
    [pc |-> "loop", iters |-> m.iters + 1,
     st |-> RmulIter(m.st, EC_A, EC_B, EC_PRIME)]

S256RmulCall ==
    /\ s256.pc = "call"
    /\ s256' = [pc |-> "loop", iters |-> 0,
                st |-> RmulEnter(S256Reduce(mk), mP)]
    /\ UNCHANGED <<mk, mP, gen, addVars, ecdsaVars, derVars, secVars>>

S256RmulStep ==
    /\ s256.pc = "loop"
    /\ s256.st.coef # 0
    /\ s256.iters < MaxIter
    /\ s256' = LoopStep(s256)
    /\ UNCHANGED <<mk, mP, gen, addVars, ecdsaVars, derVars, secVars>>

S256RmulReturn ==
    /\ s256.pc = "loop"
    /\ s256.st.coef = 0
    /\ s256' = [s256 EXCEPT !.pc = "done"]
    /\ gen' = [gen EXCEPT !.pc = "call"]
    /\ UNCHANGED <<mk, mP, addVars, ecdsaVars, derVars, secVars>>

EcRmulCall ==
    /\ gen.pc = "call"
    /\ gen' = [pc |-> "loop", iters |-> 0, st |-> RmulEnter(mk, mP)]
    /\ UNCHANGED <<mk, mP, s256, addVars, ecdsaVars, derVars, secVars>>

EcRmulStep ==
    /\ gen.pc = "loop"
    /\ gen.st.coef # 0
    /\ gen.iters < MaxIter
    /\ gen' = LoopStep(gen)
    /\ UNCHANGED <<mk, mP, s256, addVars, ecdsaVars, derVars, secVars>>

EcRmulReturn ==
    /\ gen.pc = "loop"
    /\ gen.st.coef = 0
    /\ gen' = [gen EXCEPT !.pc = "done"]
    /\ UNCHANGED <<mk, mP, s256, addVars, ecdsaVars, derVars, secVars>>

NextMul ==
    \/ S256RmulCall \/ S256RmulStep \/ S256RmulReturn
    \/ EcRmulCall \/ EcRmulStep \/ EcRmulReturn
SpecMul == InitMul /\ [][NextMul]_vars

----------------------------------------------------------------------------
(* ECDSA *)

\* 2 ** e
RECURSIVE Pow2(_)
Pow2(e) == IF e = 0 THEN 1 ELSE 2 * Pow2(e - 1)

\* The float nearest to the integer v (round half to even).
FloatOf(v) ==
    IF BitLength(v) <= FLOAT_MANT_DIG THEN v
    ELSE LET ulp == Pow2(BitLength(v) - FLOAT_MANT_DIG)
             q == v \div ulp
             rest == v % ulp
         IN  IF 2 * rest > ulp \/ (2 * rest = ulp /\ q % 2 = 1)
             THEN (q + 1) * ulp
             ELSE q * ulp

\* s > G_ORDER / 2, where / is the true division of two ints: the quotient
\* is the float nearest to it, and the comparison with the int s is exact.
AboveHalfOrder(s) == 2 * s > FloatOf(G_ORDER)

\* The values deterministic_k can return: its loop returns the first
\* HMAC-SHA256 output, read as an integer, that lies in [1, G_ORDER).
DeterministicK(sec, hash) == 1..(G_ORDER - 1)

PrivateKeyPoint(sec) == S256Rmul(sec, G)

Sign(sec, hash, k) ==
    LET r == S256Rmul(k, G)[1]
        k_inv == PyPow(k, G_ORDER - 2, G_ORDER)
        s == ((hash + r * sec) * k_inv) % G_ORDER
    IN  IF AboveHalfOrder(s) THEN <<r, G_ORDER - s>> ELSE <<r, s>>

SInv(s) == PyPow(s, G_ORDER - 2, G_ORDER)

VerifyTotal(P, hash, sg) ==
    LET u == (hash * SInv(sg[2])) % G_ORDER
        v == (sg[1] * SInv(sg[2])) % G_ORDER
    IN  S256Add(S256Rmul(u, G), S256Rmul(v, P))

\* return total.x.value == sig.r
VerifyReturnFalseAtInfinity(tot, r) ==
    IF tot = INF THEN [res |-> "False", err |-> "none"]
    ELSE [res |-> IF tot[1] = r THEN "True" ELSE "False", err |-> "none"]
VerifyReturn(tot, r) ==
    IF tot = INF THEN [res |-> "AttributeError", err |-> "total.x"]
    ELSE [res |-> IF tot[1] = r THEN "True" ELSE "False", err |-> "none"]

InitEcdsa ==
    /\ phase = "init" /\ origin = "none" /\ secret = 0
    /\ z \in 0..MaxZ
    /\ sig = <<0, 0>> /\ pub = INF /\ s_inv = 0 /\ total = INF
    /\ vres = "none" /\ verr = "none"
    /\ AddIdle /\ MulIdle /\ DerIdle /\ SecIdle

\* PrivateKey(sec)
NewKey ==
    /\ phase = "init"
    /\ \E sec \in 1..(G_ORDER - 1) :
          /\ secret' = sec
          /\ pub' = PrivateKeyPoint(sec)
    /\ phase' = "key"
    /\ UNCHANGED <<origin, z, sig, s_inv, total, vres, verr,
                   addVars, mulVars, derVars, secVars>>

\* sig = PrivateKey(secret).sign(z)
SignCall ==
    /\ phase = "key"
    /\ \E k \in DeterministicK(secret, z) : sig' = Sign(secret, z, k)
    /\ origin' = "sign"
    /\ phase' = "signed"
    /\ UNCHANGED <<secret, z, pub, s_inv, total, vres, verr,
                   addVars, mulVars, derVars, secVars>>

\* A public point and a Signature(r, s) from elsewhere.
GivenSignature ==
    /\ phase = "init"
    /\ pub' \in S256Points
    /\ sig' \in (0..MaxR) \X (0..MaxS)
    /\ origin' = "given"
    /\ phase' = "given"
    /\ UNCHANGED <<secret, z, s_inv, total, vres, verr,
                   addVars, mulVars, derVars, secVars>>

\* pub.verify(z, sig)
VerifyCall ==
    /\ phase \in {"signed", "given"}
    /\ s_inv' = SInv(sig[2])
    /\ total' = VerifyTotal(pub, z, sig)
    /\ vres' = VerifyReturn(total', sig[1]).res
    /\ verr' = VerifyReturn(total', sig[1]).err
    /\ phase' = "verified"
    /\ UNCHANGED <<origin, secret, z, sig, pub,
                   addVars, mulVars, derVars, secVars>>

NextEcdsa == NewKey \/ SignCall \/ GivenSignature \/ VerifyCall
SpecEcdsa == InitEcdsa /\ [][NextEcdsa]_vars

----------------------------------------------------------------------------
(* Byte strings: sequences of integers in 0..255 *)

\* v.to_bytes(length, "big"), for v < 256 ** length
RECURSIVE ToBytes(_, _)
ToBytes(v, length) ==
    IF length = 0 THEN <<>>
    ELSE Append(ToBytes(v \div 256, length - 1), v % 256)

\* int.from_bytes(bin, "big")
RECURSIVE FromBytesLittle(_)
FromBytesLittle(bin) ==
    IF bin = <<>> THEN 0
    ELSE bin[1] + 256 * FromBytesLittle(Tail(bin))
RECURSIVE FromBytesBig(_)
FromBytesBig(bin) ==
    IF bin = <<>> THEN 0
    ELSE 256 * FromBytesBig(SubSeq(bin, 1, Len(bin) - 1)) + bin[Len(bin)]
FromBytes(bin) == FromBytesBig(bin)

\* bin.lstrip(b"\x00")
RECURSIVE Lstrip(_)
Lstrip(bin) ==
    IF bin # <<>> /\ bin[1] = 0 THEN Lstrip(Tail(bin)) ELSE bin

----------------------------------------------------------------------------
(* Signature.der and Signature.parse *)

\* The INTEGER field of v: [kind, bytes], kind "bytes" or "IndexError"
\* (rbin[0] of an empty rbin).
DerInteger(v) ==
    LET stripped == Lstrip(ToBytes(v, INT_BYTES))
    IN  IF stripped = <<>> THEN [kind |-> "IndexError", bytes |-> <<>>]
        ELSE LET bin == IF stripped[1] >= 128 THEN <<0>> \o stripped
                        ELSE stripped
             IN  [kind |-> "bytes", bytes |-> <<2, Len(bin)>> \o bin]

SignatureDer(r, s) ==
    LET rfield == DerInteger(r)
        sfield == DerInteger(s)
    IN  IF rfield.kind # "bytes" THEN rfield
        ELSE IF sfield.kind # "bytes" THEN sfield
        ELSE LET result == rfield.bytes \o sfield.bytes
             IN  [kind |-> "bytes", bytes |-> <<48, Len(result)>> \o result]

Min(i, j) == IF i < j THEN i ELSE j

Raised(kind) == [kind |-> kind, r |-> 0, s |-> 0]

\* Signature.parse(bin): [kind, r, s], kind "Signature", "SyntaxError" or
\* "IndexError".  s.read(1)[0] is an IndexError at the end of the input;
\* s.read(n) returns the bytes that are left when fewer than n are.
SignatureParse(bin) ==
    LET n == Len(bin)
    IN  IF n < 1 THEN Raised("IndexError")
        ELSE IF bin[1] # 48 THEN Raised("SyntaxError")
        ELSE IF n < 2 THEN Raised("IndexError")
        ELSE IF bin[2] + 2 # n THEN Raised("SyntaxError")
        ELSE IF n < 3 THEN Raised("IndexError")
        ELSE IF bin[3] # 2 THEN Raised("SyntaxError")
        ELSE IF n < 4 THEN Raised("IndexError")
        ELSE
        LET rlength == bin[4]
            rend == Min(4 + rlength, n)
        IN  IF n < rend + 1 THEN Raised("IndexError")
            ELSE IF bin[rend + 1] # 2 THEN Raised("SyntaxError")
            ELSE IF n < rend + 2 THEN Raised("IndexError")
            ELSE
            LET slength == bin[rend + 2]
                send == Min(rend + 2 + slength, n)
            IN  IF n # 6 + rlength + slength THEN Raised("SyntaxError")
                ELSE [kind |-> "Signature",
                      r |-> FromBytes(SubSeq(bin, 5, rend)),
                      s |-> FromBytes(SubSeq(bin, rend + 3, send))]

\* Values of r and s: one to four significant bytes, with and without the
\* high bit of the leading byte.
DerValues ==
    {1, 2, 127, 128, 255, 256, 32767, 32768, 65535, 8388607, 8388608, 16777215}

\* Bytes of the malformed inputs.
RawBytes == {0, 2, 4, 48}

RECURSIVE RawStrings(_)
RawStrings(length) ==
    IF length = 0 THEN {<<>>}
    ELSE LET shorter == RawStrings(length - 1)
         IN  shorter \cup {Append(b, c) : b \in {t \in shorter : Len(t) = length - 1},
                                          c \in RawBytes}

InitDer ==
    /\ dpc = "init" /\ dsrc = "none"
    /\ dr \in DerValues
    /\ ds \in DerValues
    /\ dbin = <<>>
    /\ dres = [kind |-> "none", r |-> 0, s |-> 0]
    /\ AddIdle /\ MulIdle /\ EcdsaIdle /\ SecIdle

\* dbin = Signature(dr, ds).der()
DerCall ==
    /\ dpc = "init"
    /\ SignatureDer(dr, ds).kind = "bytes"
    /\ dbin' = SignatureDer(dr, ds).bytes
    /\ dsrc' = "der"
    /\ dpc' = "encoded"
    /\ UNCHANGED <<dr, ds, dres, addVars, mulVars, ecdsaVars, secVars>>

\* The encoding loses its end.
Truncate ==
    /\ dpc = "encoded" /\ dsrc = "der"
    /\ \E n \in 0..(Len(dbin) - 1) : dbin' = SubSeq(dbin, 1, n)
    /\ dsrc' = "truncated"
    /\ UNCHANGED <<dpc, dr, ds, dres, addVars, mulVars, ecdsaVars, secVars>>

\* One byte of the encoding is replaced.
Corrupt ==
    /\ dpc = "encoded" /\ dsrc = "der"
    /\ \E i \in 1..Len(dbin), c \in RawBytes :
          /\ dbin[i] # c
          /\ dbin' = [dbin EXCEPT ![i] = c]
    /\ dsrc' = "corrupted"
    /\ UNCHANGED <<dpc, dr, ds, dres, addVars, mulVars, ecdsaVars, secVars>>

\* An arbitrary byte string.
RawInput ==
    /\ dpc = "init" /\ dr = 1 /\ ds = 1
    /\ dbin' \in RawStrings(MaxRawLen)
    /\ dsrc' = "raw"
    /\ dpc' = "encoded"
    /\ UNCHANGED <<dr, ds, dres, addVars, mulVars, ecdsaVars, secVars>>

\* dres = Signature.parse(dbin)
ParseCall ==
    /\ dpc = "encoded"
    /\ dres' = SignatureParse(dbin)
    /\ dpc' = "parsed"
    /\ UNCHANGED <<dsrc, dr, ds, dbin, addVars, mulVars, ecdsaVars, secVars>>

NextDer == DerCall \/ Truncate \/ Corrupt \/ RawInput \/ ParseCall
SpecDer == InitDer /\ [][NextDer]_vars

----------------------------------------------------------------------------
(* S256Point.sec and S256Point.parse *)

\* P.sec(compressed) of a finite point P
S256Sec(P, compressed) ==
    IF compressed
    THEN IF P[2] % 2 = 0 THEN <<2>> \o ToBytes(P[1], INT_BYTES)
         ELSE <<3>> \o ToBytes(P[1], INT_BYTES)
    ELSE <<4>> \o ToBytes(P[1], INT_BYTES) \o ToBytes(P[2], INT_BYTES)

\* S256Point.parse(sec_bin): the body is "pass", the call returns None.
S256Parse(sec_bin) == [kind |-> "None", pt |-> INF]

InitSec ==
    /\ spc = "init"
    /\ sP \in S256Points \ {INF}
    /\ scompressed \in BOOLEAN
    /\ sbin = <<>>
    /\ sres = [kind |-> "none", pt |-> INF]
    /\ AddIdle /\ MulIdle /\ EcdsaIdle /\ DerIdle

\* sbin = sP.sec(scompressed)
SecCall ==
    /\ spc = "init"
    /\ sbin' = S256Sec(sP, scompressed)
    /\ spc' = "encoded"
    /\ UNCHANGED <<sP, scompressed, sres, addVars, mulVars, ecdsaVars, derVars>>

\* sres = S256Point.parse(sbin)
SecParseCall ==
    /\ spc = "encoded"
    /\ sres' = S256Parse(sbin)
    /\ spc' = "parsed"
    /\ UNCHANGED <<sP, scompressed, sbin, addVars, mulVars, ecdsaVars, derVars>>

NextSec == SecCall \/ SecParseCall
SpecSec == InitSec /\ [][NextSec]_vars

----------------------------------------------------------------------------
(* Properties *)

C2_LowS ==
    origin = "sign" => 2 * sig[2] <= G_ORDER

\* C3: parsing the DER encoding of Signature(r, s) gives a signature with
\* the same r and the same s.
C3_DerRoundTrip ==
    (dpc = "parsed" /\ dsrc = "der")
        => (dres.kind = "Signature" /\ dres.r = dr /\ dres.s = ds)

\* An encoding parsed back whose r field got the 0x00 pad byte in front of a
\* byte with the high bit set, after the zero bytes of the 32-byte form were
\* stripped.
C3_Witness ==
    /\ dpc = "parsed" /\ dsrc = "der"
    /\ dbin[4] < INT_BYTES
    /\ dbin[5] = 0 /\ dbin[6] >= 128
    /\ dres.r = dr /\ dres.s = ds

\* C4: parsing the SEC encoding of a finite point, compressed or not, gives
\* the point back.
C4_SecRoundTrip ==
    spc = "parsed" => (sres.kind = "point" /\ sres.pt = sP)

\* C5: for k >= 0 the product k * G of S256Point, which reduces k modulo the
\* group order, is the point the generic double-and-add computes from the
\* unreduced k; the unreduced G_ORDER * G is the point at infinity.
C5_ScalarReduction ==
    (gen.pc = "done" /\ s256.pc = "done" /\ mk >= 0 /\ mP = G)
        => /\ gen.st.kind = "point" /\ s256.st.kind = "point"
           /\ gen.st.result = s256.st.result
           /\ (mk = G_ORDER => gen.st.result = INF)

\* Both products are done for a scalar above the group order, one whose
\* reduction differs from it, and the product is a finite point.
C5_Witness ==
    /\ gen.pc = "done" /\ s256.pc = "done"
    /\ mk > G_ORDER /\ mP = G
    /\ s256.iters < gen.iters
    /\ gen.st.result # INF

\* C6: Signature.parse returns a Signature or fails with the malformed-
\* signature error (SyntaxError), whatever the input bytes.
C6_ParseRejects ==
    dpc = "parsed" => dres.kind \in {"Signature", "SyntaxError"}

\* C7 as stated: verifying a signature with s = 0 fails in the computation
\* of the modular inverse of s.
C7_InverseOfZeroFails ==
    (phase = "verified" /\ sig[2] = 0) => verr = "s_inv"

\* C7 as amended: with s = 0 the modular inverse is computed and is 0, the
\* sum u * G + v * P is the point at infinity, and the call returns neither
\* True nor False: it ends in the error of reading total.x.value.
C7_ZeroSEndsInError ==
    (phase = "verified" /\ sig[2] = 0)
        => /\ s_inv = 0
           /\ total = INF
           /\ vres = "AttributeError"
           /\ verr = "total.x"

\* A signature with s = 0 and r # 0 was verified against a finite point.
C7_Witness ==
    /\ phase = "verified" /\ origin = "given"
    /\ sig[2] = 0 /\ sig[1] # 0
    /\ pub # INF /\ z # 0
    /\ vres # "none"

\* C8: the loop of EllipcCurvePoint.__rmul__ runs at most bit-length(k)
\* times (stated for the products of G).
C8_LoopBounded ==
    mP = G => gen.iters <= BitLength(mk)

\* C9: the sum of two points of one curve over one prime field is a point,
\* the point at infinity or one on the curve (stated for the odd primes).
C9_AddClosed ==
    (apc = "return" /\ ap # 2)
        => /\ ares.kind = "point"
           /\ \/ ares.pt = INF
              \/ IsOnEllipticCurve(ares.pt[1], ares.pt[2], aa, ab, ap)

\* C10: verify returns a boolean for a finite public point and a signature
\* with 1 <= r < G_ORDER and 1 <= s < G_ORDER: True exactly when
\* u * G + v * P is a finite point whose x is r.
C10_VerifyTotal ==
    (/\ phase = "verified" /\ origin = "given" /\ pub # INF
     /\ sig[1] >= 1 /\ sig[1] < G_ORDER
     /\ sig[2] >= 1 /\ sig[2] < G_ORDER)
        => /\ vres \in {"True", "False"}
           /\ (vres = "True") <=> (total # INF /\ total[1] = sig[1])

----------------------------------------------------------------------------
(* Further checks of the model *)

\* Over F_p with p >= 5 the exponents 2 and 3 are below p - 1 and 2 is
\* invertible: there the addition law is closed.
AddClosedFromFive ==
    (apc = "return" /\ ap >= 5)
        => /\ ares.kind = "point"
           /\ ares.pt \in CurvePoints(aa, ab, ap)

\* On the curve of the S256Point no addition of the scalar product fails, and
\* S256Point.__rmul__ always returns.
S256RmulReturns ==
    /\ s256.st.kind = "point"
    /\ s256.iters <= BitLength(G_ORDER)

\* Between parsing outcomes: a Signature comes only from an input of
\* 6 + rlength + slength bytes.
ParsedLength ==
    (dpc = "parsed" /\ dres.kind = "Signature")
        => /\ Len(dbin) >= 6
           /\ dbin[1] = 48 /\ dbin[2] = Len(dbin) - 2 /\ dbin[3] = 2
           /\ Len(dbin) = 6 + dbin[4] + dbin[6 + dbin[4]]

====
